---- MODULE Spec2Model ----
(***************************************************************************)
(* Temporal fusion and decision engine of the knock detector               *)
(* (nano_ble33_sense_microphone_new_works.ino).                            *)
(*                                                                         *)
(* Numbers.  The sketch computes in float; here every quantity is an exact *)
(* fixed-point integer: a classifier score and a recency weight are in     *)
(* hundredths (0.30 is 30, 0.35 is 35), so a fused score and the threshold *)
(* are in ten-thousandths (0.25 is 2500, 0.21 is 2100).  The boosts 1.0,   *)
(* 2.0, 1.0 are the integers 1, 2, 1.                                      *)
(*                                                                         *)
(* One action is one call of setup() or of loop(), taken whole: the        *)
(* sketch is single-threaded and no interrupt touches the fusion state.    *)
(* SpecRecord refines the recording of a cycle into the iterations of the  *)
(* loop of microphone_inference_record, against a wrapping clock.          *)
(***************************************************************************)
EXTENDS Integers, Sequences, FiniteSets, TLC

\* ---------------------------------------------------------------- constants
FUSION_WINDOW == 5

EI_CLASSIFIER_LABEL_COUNT == 3

KNOCK_THRESHOLD == 2500

\* index of the knock class in the categories array
KNOCK_IX == 1

\* the oldest slot dropped from the sum
fusion_weights_mut == <<0, 10, 20, 30, 40>>

fusion_weights == <<5, 10, 20, 30, 35>>

class_boost == <<1, 2, 1>>

\* ------------------------------------------------------------------- bounds
\* stand-in for EI_CLASSIFIER_RAW_SAMPLE_COUNT (vendor header, thousands)
RawSampleCount == 2

\* successful pushes explored in one run
MaxPushes == 11

\* successful pushes explored in a run followed by the observer
MaxObservedPushes == 7

\* successful pushes explored in a run over the wider score set
MaxWidePushes == 7

\* how far a boost is raised when boosts are compared
MaxBoostStep == 2

\* successful pushes explored in a run that records sample by sample
MaxRecordedPushes == 1

\* the clock, scaled down: ticks of micros() per millisecond (1000)
UsPerMs == 2

\* timeout_ms of microphone_inference_record in milliseconds (10000)
TimeoutMs == 3

\* SAMPLE_INTERVAL in ticks of micros() (125)
SampleTicks == 1

\* longest time one iteration of the recording loop takes, in ticks
MaxDelay == 2

\* millis() and micros() are unsigned long and wrap; micros() wraps
\* UsPerMs times sooner than millis()
MillisWrap == 4 * TimeoutMs

MicrosWrap == 2 * TimeoutMs * UsPerMs

ClockPeriod == MillisWrap * UsPerMs

Slots == 0 .. (FUSION_WINDOW - 1)

Classes == 0 .. (EI_CLASSIFIER_LABEL_COUNT - 1)

Vec(a, b, c) == (0 :> a) @@ (1 :> b) @@ (2 :> c)

ZeroVec == [c \in Classes |-> 0]

\* the per-window score vectors the classifier can deliver in this model
Vectors == { Vec(0, 0, 0), Vec(0, 30, 0), Vec(0, 20, 0), Vec(70, 20, 10) }

\* the same with a window that is certain of a knock (score 1.0)
WideVectors == Vectors \cup { Vec(0, 100, 0) }

VARIABLES classification_buffer, fusion_index, fusion_buffer_full,
          inference, pc, serial,
          pushes, window, slot_push, decisions, ev, snap, rec

vars == <<classification_buffer, fusion_index, fusion_buffer_full,
          inference, pc, serial,
          pushes, window, slot_push, decisions, ev, snap, rec>>

fusion == <<classification_buffer, fusion_index, fusion_buffer_full>>

\* --------------------------------------------------------------- the serial
Line(kind, ix, val) == [kind |-> kind, ix |-> ix, val |-> val]

Log(msg) == Line(msg, 0, 0)

IsDecision(l) == l.kind \in {"KNOCK DETECTED!", "NO KNOCK DETECTED"}

IsScore(l) == l.kind = "score"

\* ------------------------------------------------------------ the history
\* the cursor advanced before the write instead of after it
PushVector_mut(buf, idx, v) ==
    [buf EXCEPT ![(idx + 1) % FUSION_WINDOW] = [c \in Classes |-> v[c]]]

\* lines 165-167: copy the C scores of the result into the cursor's slot
PushVector(buf, idx, v) ==
    [buf EXCEPT ![idx] = [c \in Classes |-> v[c]]]

\* the wrap test written with > instead of >=
AdvanceIndex_late(idx) ==
    IF idx + 1 > FUSION_WINDOW THEN 0 ELSE idx + 1

\* the cursor wrapping one slot early
AdvanceIndex_mut(idx) ==
    IF idx + 1 >= FUSION_WINDOW - 1 THEN 0 ELSE idx + 1

\* lines 168-170: advance the cursor, wrapping at FUSION_WINDOW
AdvanceIndex(idx) ==
    IF idx + 1 >= FUSION_WINDOW THEN 0 ELSE idx + 1

\* the flag as a plain "wrapped in this cycle" test, cleared otherwise
FullAfter_mut(idx, full) ==
    idx + 1 >= FUSION_WINDOW

\* lines 169-172: the full flag is set on the wrap and never cleared
FullAfter(idx, full) ==
    IF idx + 1 >= FUSION_WINDOW THEN TRUE ELSE full

\* ------------------------------------------------------------- the fusion
RECURSIVE WeightedAcc(_, _, _)
\* lines 179-183: S[c] += fusion_weights[i] * classification_buffer[i][c]
\* for i = 0 .. n-1, slot by slot in storage order
WeightedAcc(buf, c, n) ==
    IF n = 0 THEN 0
    ELSE WeightedAcc(buf, c, n - 1) + fusion_weights[n] * buf[n - 1][c]

WeightedSum(buf, c) == WeightedAcc(buf, c, FUSION_WINDOW)

\* the boost of the knock class applied to every class
FuseWith_mut(buf, boost) ==
    [c \in Classes |-> WeightedSum(buf, c) * boost[KNOCK_IX + 1]]

\* lines 176-187 for a boost table boost: S[c] *= boost[c]
FuseWith(buf, boost) ==
    [c \in Classes |-> WeightedSum(buf, c) * boost[c + 1]]

\* the fused scores clamped to 1.0
Fuse_mut(buf) ==
    [c \in Classes |->
        IF FuseWith(buf, class_boost)[c] > 10000
        THEN 10000 ELSE FuseWith(buf, class_boost)[c]]

\* lines 176-187: the weighted sums, boosted by class_boost
Fuse(buf) == FuseWith(buf, class_boost)

\* the comparison made non-strict
Decide_mut(S) == S[KNOCK_IX] >= KNOCK_THRESHOLD

\* line 191: strict comparison of the knock class against the threshold
Decide(S) == S[KNOCK_IX] > KNOCK_THRESHOLD

\* the print loop starting at class 1 instead of class 0
ScoreLines_mut(S, n) ==
    [k \in 1 .. (n - 1) |-> [kind |-> "score", ix |-> k, val |-> S[k]]]

RECURSIVE ScoreLines(_, _)
\* lines 199-204: one "<label>: <value>" line per class, in class order
ScoreLines(S, n) ==
    IF n = 0 THEN <<>>
    ELSE Append(ScoreLines(S, n - 1), Line("score", n - 1, S[n - 1]))

\* the report without the test of the full flag
Report_mut(buf, full) ==
    <<[kind |-> IF Decide(Fuse(buf)) THEN "KNOCK DETECTED!"
                                     ELSE "NO KNOCK DETECTED",
       ix |-> 0, val |-> 0]>>
    \o ScoreLines(Fuse(buf), EI_CLASSIFIER_LABEL_COUNT)

\* lines 175-205: what a cycle prints once the buffer is full
Report(buf, full) ==
    IF full
    THEN <<Log(IF Decide(Fuse(buf)) THEN "KNOCK DETECTED!"
                                    ELSE "NO KNOCK DETECTED")>>
         \o ScoreLines(Fuse(buf), EI_CLASSIFIER_LABEL_COUNT)
    ELSE <<>>

\* -------------------------------------------------------- the audio buffer
\* inference.buffer is "null" (never allocated), "allocated" or "freed"
Accessible(inf) == inf.buffer = "allocated"

NoEvent == [kind |-> "boot", stores |-> 0,
            store_freed |-> FALSE, store_null |-> FALSE,
            read_freed |-> FALSE, read_null |-> FALSE,
            double_free |-> FALSE]

\* what one cycle did to inference.buffer, found in the state inf: stores
\* samples were stored (line 77), read tells whether the classifier
\* fetched the samples (line 102), free whether line 110 ran
Event(kind, inf, stores, read, free) ==
    [kind        |-> kind,
     stores      |-> stores,
     store_freed |-> (stores > 0 /\ inf.buffer = "freed"),
     store_null  |-> (stores > 0 /\ inf.buffer = "null"),
     read_freed  |-> (read /\ inf.buffer = "freed"),
     read_null   |-> (read /\ inf.buffer = "null"),
     double_free |-> (free /\ inf.buffer = "freed")]

\* line 110: free(inference.buffer); the pointer is left as it was
microphone_inference_end(inf) ==
    [inf EXCEPT !.buffer = IF inf.buffer = "null" THEN "null" ELSE "freed"]

\* the locals of microphone_inference_record (lines 59-65) and where the
\* call stands: "idle" outside a call, "while" at the loop head (line 67),
\* "true" or "false" once it has returned; t is the hardware time in ticks
\* and stored counts the samples stored by the call
NoRecording == [pc |-> "idle", t |-> 0, start_time |-> 0,
                next_sample_time |-> 0, stored |-> 0]

\* the end of loop(): the call of microphone_inference_record is over
Returned(r) == [r EXCEPT !.pc = "idle"]

\* millis() and micros() at hardware time t
Millis(t) == (t \div UsPerMs) % MillisWrap

Micros(t) == t % MicrosWrap

\* the timeout test never firing
TimedOut_mut(r) == FALSE

\* line 69: millis() - start_time > timeout_ms, in unsigned arithmetic
TimedOut(r) ==
    (Millis(r.t) - r.start_time) % MillisWrap > TimeoutMs

\* line 76: micros() >= next_sample_time
SampleDue(r) == Micros(r.t) >= r.next_sample_time

\* the loop test written with <= instead of <
RecordContinues_mut(inf) == inf.buf_count <= inf.n_samples

\* line 67: inference.buf_count < inference.n_samples
RecordContinues(inf) == inf.buf_count < inf.n_samples

\* n_samples set before the test of the allocation
microphone_inference_start_mut(inf, ok) ==
    [buffer |-> IF ok THEN "allocated" ELSE "null",
     buf_count |-> 0, n_samples |-> RawSampleCount]

\* lines 45-53: on a failed malloc the struct keeps its zero initial values
microphone_inference_start(inf, ok) ==
    IF ok
    THEN [buffer |-> "allocated", buf_count |-> 0,
          n_samples |-> RawSampleCount]
    ELSE [inf EXCEPT !.buffer = "null"]

NoSnap == [taken |-> FALSE, window |-> <<>>, fused |-> ZeroVec,
           knock |-> FALSE]

\* -------------------------------------------------------------------- Init
Init ==
    /\ classification_buffer = [i \in Slots |-> ZeroVec]
    /\ fusion_index = 0
    /\ fusion_buffer_full = FALSE
    /\ inference = [buffer |-> "null", buf_count |-> 0, n_samples |-> 0]
    /\ pc = "setup"
    /\ serial = <<>>
    /\ pushes = 0
    /\ window = <<>>
    /\ slot_push = [i \in Slots |-> 0]
    /\ decisions = 0
    /\ ev = NoEvent
    /\ snap = NoSnap
    /\ rec = NoRecording

\* ----------------------------------------------------------------- actions
\* setup(), lines 116-136, with microphone_inference_start, lines 45-53
Setup ==
    /\ pc = "setup"
    /\ \E ok \in BOOLEAN :
          inference' = microphone_inference_start(inference, ok)
    /\ pc' = "loop"
    /\ serial' = <<Log("Edge Impulse Inferencing Demo")>>
    /\ ev' = [NoEvent EXCEPT !.kind = "setup"]
    /\ UNCHANGED <<fusion, pushes, window, slot_push, decisions, snap, rec>>

\* loop(), lines 141-149: the recording times out after k samples
LoopRecordTimeout ==
    /\ pc = "loop"
    /\ \E k \in 0 .. (inference.n_samples - 1) :
          /\ inference' = [inference EXCEPT !.buf_count = k]
          /\ ev' = Event("timeout", inference, k, FALSE, FALSE)
    /\ serial' = <<Log("Starting inferencing in 2 seconds..."),
                   Log("Recording..."),
                   Log("Recording timeout!"),
                   Log("ERR: Failed to record audio...")>>
    /\ rec' = Returned(rec)
    /\ UNCHANGED <<fusion, pc, pushes, window, slot_push, decisions, snap>>

\* the classifier error path without its return: the zero-initialised
\* result is pushed
LoopClassifierError_mut ==
    /\ pc = "loop"
    /\ \E rd \in BOOLEAN :
          ev' = Event("clferr", inference, inference.n_samples, rd, TRUE)
    /\ inference' = microphone_inference_end(
                       [inference EXCEPT !.buf_count = inference.n_samples])
    /\ classification_buffer' =
          PushVector(classification_buffer, fusion_index, ZeroVec)
    /\ fusion_index' = AdvanceIndex(fusion_index)
    /\ fusion_buffer_full' = FullAfter(fusion_index, fusion_buffer_full)
    /\ serial' = <<Log("ERR: Failed to run classifier")>>
                 \o Report(classification_buffer', fusion_buffer_full')
    /\ rec' = Returned(rec)
    /\ UNCHANGED <<pc, pushes, window, slot_push, decisions, snap>>

\* loop(), lines 141-162: the recording completes, run_classifier fails
LoopClassifierError ==
    /\ pc = "loop"
    /\ \E rd \in BOOLEAN :
          ev' = Event("clferr", inference, inference.n_samples, rd, TRUE)
    /\ inference' = microphone_inference_end(
                       [inference EXCEPT !.buf_count = inference.n_samples])
    /\ serial' = <<Log("Starting inferencing in 2 seconds..."),
                   Log("Recording..."),
                   Log("Recording completed"),
                   Log("Recording done"),
                   Log("ERR: Failed to run classifier")>>
    /\ rec' = Returned(rec)
    /\ UNCHANGED <<fusion, pc, pushes, window, slot_push, decisions, snap>>

\* loop(), lines 141-208: the recording completes and the classifier
\* delivers the vector v
LoopClassified(v) ==
    /\ pc = "loop"
    /\ pushes < MaxPushes
    /\ inference' = [inference EXCEPT !.buf_count = inference.n_samples]
    /\ ev' = Event("push", inference, inference.n_samples, TRUE, FALSE)
    /\ classification_buffer' =
          PushVector(classification_buffer, fusion_index, v)
    /\ fusion_index' = AdvanceIndex(fusion_index)
    /\ fusion_buffer_full' = FullAfter(fusion_index, fusion_buffer_full)
    /\ serial' = <<Log("Starting inferencing in 2 seconds..."),
                   Log("Recording..."),
                   Log("Recording completed"),
                   Log("Recording done")>>
                 \o Report(classification_buffer', fusion_buffer_full')
    /\ pushes' = pushes + 1
    /\ window' = IF Len(window) < FUSION_WINDOW
                 THEN Append(window, v)
                 ELSE Append(Tail(window), v)
    /\ slot_push' = [slot_push EXCEPT ![fusion_index] = pushes + 1]
    /\ decisions' = decisions
                    + Cardinality({n \in 1 .. Len(serial') :
                                      IsDecision(serial'[n])})
    /\ rec' = Returned(rec)
    /\ UNCHANGED <<pc, snap>>

\* an access through a dangling or null inference.buffer may also stop the
\* board (HardFault) instead of going unnoticed; the fault is taken before
\* the cycle reaches the push
LoopFault ==
    /\ pc = "loop"
    /\ ~Accessible(inference)
    /\ pc' = "halted"
    /\ ev' = Event("fault", inference, inference.n_samples, TRUE, FALSE)
    /\ serial' = <<Log("Starting inferencing in 2 seconds..."),
                   Log("Recording...")>>
    /\ rec' = Returned(rec)
    /\ UNCHANGED <<fusion, inference, pushes, window, slot_push,
                   decisions, snap>>

Next ==
    \/ Setup
    \/ LoopRecordTimeout
    \/ LoopClassifierError
    \/ \E v \in Vectors : LoopClassified(v)
    \/ LoopFault

Spec == Init /\ [][Next]_vars

\* an observer keeps the window and the output of the first cycle that
\* printed a fused vector, to compare the later cycles of the run with it
Observe ==
    /\ pc = "loop"
    /\ ~snap.taken
    /\ pushes = FUSION_WINDOW
    /\ \E n \in 1 .. Len(serial) : IsScore(serial[n])
    /\ snap' = [taken  |-> TRUE,
                window |-> window,
                fused  |-> Fuse(classification_buffer),
                knock  |-> Decide(Fuse(classification_buffer))]
    /\ UNCHANGED <<fusion, inference, pc, serial, pushes, window,
                   slot_push, decisions, ev, rec>>

NextObserved ==
    \/ Setup
    \/ LoopRecordTimeout
    \/ LoopClassifierError
    \/ \E v \in Vectors : pushes < MaxObservedPushes /\ LoopClassified(v)
    \/ LoopFault
    \/ Observe

SpecObserved == Init /\ [][NextObserved]_vars

\* loop(), lines 142-146, and microphone_inference_record, lines 59-65:
\* a cycle starts and the recording reads the clock, at any hardware time
RecordBegin ==
    /\ pc = "loop"
    /\ rec.pc = "idle"
    /\ \E t0 \in 0 .. (ClockPeriod - 1) :
          rec' = [pc |-> "while", t |-> t0, start_time |-> Millis(t0),
                  next_sample_time |-> Micros(t0), stored |-> 0]
    /\ inference' = [inference EXCEPT !.buf_count = 0]
    /\ ev' = Event("begin", inference, 0, FALSE, FALSE)
    /\ serial' = <<Log("Starting inferencing in 2 seconds..."),
                   Log("Recording...")>>
    /\ UNCHANGED <<fusion, pc, pushes, window, slot_push, decisions, snap>>

\* lines 67-73: the timeout has expired, the call returns false
RecordTimeout ==
    /\ rec.pc = "while"
    /\ RecordContinues(inference)
    /\ TimedOut(rec)
    /\ rec' = [rec EXCEPT !.pc = "false"]
    /\ ev' = Event("rec_timeout", inference, 0, FALSE, FALSE)
    /\ serial' = Append(serial, Log("Recording timeout!"))
    /\ UNCHANGED <<fusion, inference, pc, pushes, window, slot_push,
                   decisions, snap>>

\* lines 67-90: one iteration that stores a sample and then waits
RecordSample ==
    /\ rec.pc = "while"
    /\ RecordContinues(inference)
    /\ ~TimedOut(rec)
    /\ SampleDue(rec)
    /\ inference' = [inference EXCEPT !.buf_count = @ + 1]
    /\ \E dt \in 1 .. MaxDelay :
          rec' = [rec EXCEPT
                     !.t = (@ + dt) % ClockPeriod,
                     !.next_sample_time = (@ + SampleTicks) % MicrosWrap,
                     !.stored = @ + 1]
    /\ ev' = Event("store", inference, 1, FALSE, FALSE)
    /\ UNCHANGED <<fusion, pc, serial, pushes, window, slot_push,
                   decisions, snap>>

\* lines 67-90: one iteration before the next sample is due; it only waits
RecordWait ==
    /\ rec.pc = "while"
    /\ RecordContinues(inference)
    /\ ~TimedOut(rec)
    /\ ~SampleDue(rec)
    /\ \E dt \in 1 .. MaxDelay :
          rec' = [rec EXCEPT !.t = (@ + dt) % ClockPeriod]
    /\ ev' = Event("wait", inference, 0, FALSE, FALSE)
    /\ UNCHANGED <<fusion, inference, pc, serial, pushes, window,
                   slot_push, decisions, snap>>

\* lines 67 and 92-93: the loop test fails, the call returns true
RecordDone ==
    /\ rec.pc = "while"
    /\ ~RecordContinues(inference)
    /\ rec' = [rec EXCEPT !.pc = "true"]
    /\ ev' = Event("rec_done", inference, 0, FALSE, FALSE)
    /\ serial' = Append(serial, Log("Recording completed"))
    /\ UNCHANGED <<fusion, inference, pc, pushes, window, slot_push,
                   decisions, snap>>

RecordStep == RecordTimeout \/ RecordSample \/ RecordWait \/ RecordDone

\* the cycles of Spec with the recording taken iteration by iteration; the
\* rest of loop() runs once the call has returned, with its result
NextRecord ==
    \/ Setup
    \/ RecordBegin
    \/ RecordTimeout
    \/ RecordSample
    \/ RecordWait
    \/ RecordDone
    \/ rec.pc = "false" /\ LoopRecordTimeout /\ inference' = inference
    \/ rec.pc = "true" /\ LoopClassifierError
    \/ \E v \in Vectors :
          rec.pc = "true" /\ pushes < MaxRecordedPushes /\ LoopClassified(v)
    \/ rec.pc = "true" /\ LoopFault

SpecRecord == Init /\ [][NextRecord]_vars

\* loop() keeps executing: an iteration of the recording loop that can be
\* taken is taken
SpecRecordFair == SpecRecord /\ WF_vars(RecordStep)

\* the runs of Spec with the classifier delivering a vector of WideVectors
NextWide ==
    \/ Setup
    \/ LoopRecordTimeout
    \/ LoopClassifierError
    \/ \E v \in WideVectors : pushes < MaxWidePushes /\ LoopClassified(v)
    \/ LoopFault

SpecWide == Init /\ [][NextWide]_vars

\* ------------------------------------------------- reading the last cycle
\* the decision and score lines among the lines of the last cycle
Emitted(s) == SelectSeq(s, LAMBDA l : IsDecision(l) \/ IsScore(l))

HasDecision(s) == \E n \in 1 .. Len(s) : IsDecision(s[n])

HasFused(s) == \E n \in 1 .. Len(s) : IsScore(s[n])

\* the fused score printed for class c in the last cycle
PrintedScore(s, c) ==
    LET n == CHOOSE m \in 1 .. Len(s) : IsScore(s[m]) /\ s[m].ix = c
    IN  s[n].val

PrintedKnock(s) == \E n \in 1 .. Len(s) : s[n].kind = "KNOCK DETECTED!"

RECURSIVE ChronoAcc(_, _, _)
\* sum of fusion_weights[i] * history[i][c], history oldest first
ChronoAcc(win, c, n) ==
    IF n = 0 THEN 0
    ELSE ChronoAcc(win, c, n - 1) + fusion_weights[n] * win[n][c]

ChronoFuse(win) ==
    [c \in Classes |->
        class_boost[c + 1] * ChronoAcc(win, c, FUSION_WINDOW)]

Failed(e) == e.kind \in {"timeout", "clferr"}

\* ------------------------------------------------------------------ claims
\* C1: in every cycle that prints a fused vector, the fused score of each
\* class c is boosts[c] * sum of weights[i] * history[i][c], history[i] being
\* the vector pushed (W-1-i) pushes before the most recent one.
C1_ChronologicalFusion ==
    HasFused(serial) =>
        \A c \in Classes :
            PrintedScore(serial, c) = ChronoFuse(window)[c]

\* C2: fusion_buffer_full is false while fewer than W pushes have occurred,
\* true once W or more have, and once true it is never set back to false.
C2_WarmupGating ==
    /\ [](fusion_buffer_full <=> pushes >= FUSION_WINDOW)
    /\ [][fusion_buffer_full => fusion_buffer_full']_vars

C2_Witness ==
    /\ fusion_buffer_full
    /\ pushes > FUSION_WINDOW
    /\ Failed(ev)
    /\ fusion_index # 0

\* C3: no decision and no fused score is printed before the W-th successful
\* push, and the first decision is printed in the cycle of the W-th push.
C3_NoOutputWhileWarming ==
    /\ pushes < FUSION_WINDOW =>
          /\ decisions = 0
          /\ ~HasDecision(serial)
          /\ ~HasFused(serial)
    /\ pushes = FUSION_WINDOW =>
          /\ decisions = 1
          /\ ev.kind = "push" => HasDecision(serial)

C3_Witness ==
    /\ pushes = FUSION_WINDOW
    /\ ev.kind = "push"
    /\ decisions = 1
    /\ HasDecision(serial)

\* C4: once Active, a cycle that pushes prints, after the push, exactly one
\* decision followed by exactly C fused scores; a cycle pushes at most once,
\* and a cycle without a push prints no decision.
C4_ActiveCycleOutput ==
    [][ /\ pushes' \in {pushes, pushes + 1}
        /\ Cardinality({i \in Slots : classification_buffer'[i]
                                         # classification_buffer[i]}) <= 1
        /\ (pushes' = pushes + 1 /\ pushes' >= FUSION_WINDOW) =>
              LET out == Emitted(serial')
              IN  /\ Len(out) = 1 + EI_CLASSIFIER_LABEL_COUNT
                  /\ IsDecision(out[1])
                  /\ \A c \in Classes :
                        /\ IsScore(out[c + 2])
                        /\ out[c + 2].ix = c
                        /\ out[c + 2].val = Fuse(classification_buffer')[c]
        /\ pushes' = pushes =>
              /\ ~HasDecision(serial')
              /\ ~HasFused(serial')
      ]_vars

C4_Witness ==
    /\ pushes > FUSION_WINDOW
    /\ ev.kind = "push"
    /\ Len(Emitted(serial)) = 1 + EI_CLASSIFIER_LABEL_COUNT
    /\ decisions = pushes - FUSION_WINDOW + 1

\* C5: after N >= W pushes the W slots hold exactly the vectors of pushes
\* N-W+1 .. N, each in exactly one slot, no older push is in any slot, and a
\* push past capacity overwrites the slot holding the oldest vector.
C5_Overwrite ==
    /\ [](pushes >= FUSION_WINDOW =>
            /\ {slot_push[i] : i \in Slots}
                  = (pushes - FUSION_WINDOW + 1) .. pushes
            /\ \A i \in Slots :
                  classification_buffer[i]
                     = window[slot_push[i] - (pushes - FUSION_WINDOW)])
    /\ [][(pushes >= FUSION_WINDOW /\ pushes' = pushes + 1) =>
            \E i \in Slots :
               /\ slot_push[i] = pushes - FUSION_WINDOW + 1
               /\ slot_push'[i] = pushes'
               /\ classification_buffer'[i] = window'[FUSION_WINDOW]
               /\ \A j \in Slots \ {i} :
                     /\ slot_push'[j] = slot_push[j]
                     /\ classification_buffer'[j] = classification_buffer[j]
         ]_vars

C5_Witness ==
    /\ pushes = FUSION_WINDOW + 1
    /\ ev.kind = "push"
    /\ \A i \in Slots : slot_push[i] # 1
    /\ classification_buffer[0] = window[FUSION_WINDOW]
    /\ classification_buffer[0] # classification_buffer[1]

\* C6: a cycle whose recording times out or whose classifier call fails
\* pushes nothing: classification_buffer, fusion_index and
\* fusion_buffer_full are unchanged and no decision or score is printed,
\* Warming or Active.
C6_FailedCycleFrozen ==
    [][Failed(ev') =>
          /\ classification_buffer' = classification_buffer
          /\ fusion_index' = fusion_index
          /\ fusion_buffer_full' = fusion_buffer_full
          /\ pushes' = pushes
          /\ ~HasDecision(serial')
          /\ ~HasFused(serial')
      ]_vars

C6_Witness ==
    /\ ev.kind = "clferr"
    /\ fusion_buffer_full
    /\ fusion_index = 2
    /\ ~HasDecision(serial)

\* C7: after a cycle in which run_classifier failed, recording still writes
\* into an allocated sample buffer: the buffer is never written or read
\* after having been freed and is never freed twice.
C7_BufferStaysAllocated ==
    /\ ~ev.store_freed
    /\ ~ev.read_freed
    /\ ~ev.double_free

\* C8: the decision is "detected" exactly when the fused score of the knock
\* class is strictly above the threshold; a score equal to the threshold is
\* "not detected", and no other class takes part.
C8_StrictThreshold ==
    HasDecision(serial) =>
        (PrintedKnock(serial)
            <=> PrintedScore(serial, KNOCK_IX) > KNOCK_THRESHOLD)

C8_Witness ==
    /\ HasDecision(serial)
    /\ PrintedScore(serial, KNOCK_IX) = KNOCK_THRESHOLD
    /\ ~PrintedKnock(serial)

\* C10: whenever the five most recent pushes have knock scores 0, 0, 0, 0,
\* 0.30 in chronological order (other classes 0), the fused knock score is
\* 0.21 and the decision is "not detected", for any number of pushes.
C10_ScenarioA ==
    (/\ HasFused(serial)
     /\ window = <<Vec(0, 0, 0), Vec(0, 0, 0), Vec(0, 0, 0), Vec(0, 0, 0),
                   Vec(0, 30, 0)>>) =>
        /\ PrintedScore(serial, KNOCK_IX) = 2100
        /\ ~PrintedKnock(serial)

\* C9: the fused vector and the decision of a cycle depend only on the W
\* most recently pushed vectors in chronological order: two cycles with the
\* same last W pushed vectors print the same fused vector and the same
\* decision, whatever preceded them.
C9_WindowDeterminesOutput ==
    (/\ snap.taken
     /\ HasFused(serial)
     /\ window = snap.window) =>
        /\ \A c \in Classes : PrintedScore(serial, c) = snap.fused[c]
        /\ PrintedKnock(serial) = snap.knock

\* C11: whenever all W vectors of the window carry the same score s for a
\* class c, the fused score is boosts[c] * s at any cursor position; with
\* s = 0.2 on the knock class it is 0.40 and the decision is "detected";
\* nothing is clamped, so s = 1.0 on the knock class gives 2.0.
C11_UniformWindow ==
    HasFused(serial) =>
        /\ \A c \in Classes :
              (\A i \in 1 .. FUSION_WINDOW : window[i][c] = window[1][c]) =>
                 PrintedScore(serial, c)
                    = class_boost[c + 1] * window[1][c] * 100
        /\ (\A i \in 1 .. FUSION_WINDOW : window[i][KNOCK_IX] = 20) =>
              /\ PrintedScore(serial, KNOCK_IX) = 4000
              /\ PrintedKnock(serial)
        /\ (\A i \in 1 .. FUSION_WINDOW : window[i][KNOCK_IX] = 100) =>
              /\ PrintedScore(serial, KNOCK_IX) = 20000
              /\ PrintedKnock(serial)

C11_Witness ==
    /\ HasFused(serial)
    /\ pushes > FUSION_WINDOW
    /\ fusion_index = 2
    /\ \A i \in 1 .. FUSION_WINDOW : window[i][KNOCK_IX] = 100
    /\ PrintedScore(serial, KNOCK_IX) = 20000

\* C12: for a fixed window and fixed weights, raising boosts[c] strictly
\* raises the fused score S[c] when the weighted sum of class c is
\* positive, and leaves S[c2] unchanged for every other class c2.
C12_BoostMonotone ==
    HasFused(serial) =>
        \A c \in Classes : \A d \in 1 .. MaxBoostStep :
            LET up == [class_boost EXCEPT ![c + 1] = @ + d]
                S2 == FuseWith(classification_buffer, up)
            IN  /\ WeightedSum(classification_buffer, c) > 0 =>
                      S2[c] > PrintedScore(serial, c)
                /\ \A c2 \in Classes \ {c} :
                      S2[c2] = PrintedScore(serial, c2)

C12_Witness ==
    /\ HasFused(serial)
    /\ WeightedSum(classification_buffer, 0) > 0
    /\ WeightedSum(classification_buffer, KNOCK_IX) > 0
    /\ WeightedSum(classification_buffer, 2) > 0

\* C13: a successful push writes the C scores of exactly one slot, the slot
\* indexed by the cursor before the push, and leaves the other W-1 slots
\* unchanged; the fuse/decide/report step that follows changes none of
\* classification_buffer, fusion_index and fusion_buffer_full, so the cycle
\* leaves them as the push did.
C13_PushFrame ==
    [][pushes' = pushes + 1 =>
          /\ \A c \in Classes :
                classification_buffer'[fusion_index][c]
                   = window'[Len(window')][c]
          /\ \A j \in Slots \ {fusion_index} :
                classification_buffer'[j] = classification_buffer[j]
          /\ fusion_index' = (fusion_index + 1) % FUSION_WINDOW
          /\ fusion_buffer_full'
                = (fusion_buffer_full \/ fusion_index + 1 = FUSION_WINDOW)
      ]_vars

C13_Witness ==
    /\ ev.kind = "push"
    /\ HasFused(serial)
    /\ fusion_index = 3
    /\ classification_buffer[2] = window[FUSION_WINDOW]
    /\ classification_buffer[2] # classification_buffer[3]
    /\ classification_buffer[2] # classification_buffer[1]

\* C15: between cycles fusion_index is in 0..W-1 and equals the number of
\* successful pushes modulo W, so every write through it is inside the W
\* slots, for any interleaving of successful and failed cycles.
C15_CursorInvariant ==
    /\ fusion_index \in Slots
    /\ fusion_index = pushes % FUSION_WINDOW

C15_Witness ==
    /\ pushes = 2 * FUSION_WINDOW
    /\ fusion_index = 0
    /\ Failed(ev)

\* C16: the vector classified in a cycle takes part in that cycle's fused
\* output with a positive weight: with any other score for a class c of
\* positive boost in the vector just pushed, the fused score S[c] of the
\* cycle would differ from the one printed.
C16_CurrentVectorCounts ==
    [][(pushes' = pushes + 1 /\ HasFused(serial')) =>
          \A c \in Classes : \A v2 \in Vectors :
             LET v == window'[Len(window')]
                 alt == PushVector(classification_buffer, fusion_index,
                                   [v EXCEPT ![c] = v2[c]])
             IN  (v2[c] # v[c] /\ class_boost[c + 1] > 0) =>
                    Fuse(alt)[c] # PrintedScore(serial', c)
      ]_vars

C16_Witness ==
    /\ ev.kind = "push"
    /\ HasFused(serial)
    /\ fusion_index = 1
    /\ window[FUSION_WINDOW][KNOCK_IX] = 30
    /\ PrintedScore(serial, KNOCK_IX) = 300

\* C14: every call of microphone_inference_record terminates while the
\* clock advances: it returns true only with exactly n_samples samples
\* collected, returns false once more than the timeout has elapsed since its
\* start with fewer than n_samples collected, and never loops forever.
C14_RecordTerminates ==
    /\ [](rec.pc = "true" =>
            /\ inference.buf_count = inference.n_samples
            /\ rec.stored = inference.n_samples)
    /\ [](rec.pc = "false" =>
            /\ inference.buf_count < inference.n_samples
            /\ (Millis(rec.t) - rec.start_time) % MillisWrap > TimeoutMs)
    /\ [][(/\ rec.pc = "while"
           /\ inference.buf_count < inference.n_samples
           /\ (Millis(rec.t) - rec.start_time) % MillisWrap > TimeoutMs)
             => rec'.pc = "false"]_vars
    /\ (rec.pc = "while" ~> rec.pc \in {"true", "false"})

C14_Witness ==
    /\ rec.pc = "false"
    /\ rec.stored = 1
    /\ inference.buffer = "allocated"

\* C17: the loop never records into an unallocated audio buffer: if
\* microphone_inference_start failed to allocate it in setup, no later
\* cycle stores a sample through inference.buffer.
C17_NoStoreThroughNull ==
    /\ ~ev.store_null
    /\ inference.buffer = "null" =>
          /\ inference.buf_count = 0
          /\ rec.stored = 0

C17_Witness ==
    /\ inference.buffer = "null"
    /\ ev.kind = "push"
    /\ pushes = 1
    /\ ev.read_null

\* C18: inference.buf_count is reset to 0 at the start of every call of the
\* recording, never exceeds inference.n_samples, every sample store uses an
\* index in 0..n_samples-1, and the classifier is run in a cycle only after
\* a recording that collected all n_samples samples of that cycle.
C18_RecordingBounds ==
    /\ [](inference.buf_count <= inference.n_samples)
    /\ [][ /\ ev'.kind = "begin" =>
                (inference'.buf_count = 0 /\ rec'.stored = 0)
           /\ ev'.kind = "store" =>
                /\ inference.buf_count \in 0 .. (inference.n_samples - 1)
                /\ inference'.buf_count = inference.buf_count + 1
           /\ ev'.kind \in {"push", "clferr"} =>
                /\ rec.pc = "true"
                /\ rec.stored = inference.n_samples
                /\ inference.buf_count = inference.n_samples
         ]_vars

C18_Witness ==
    /\ ev.kind = "push"
    /\ rec.stored = RawSampleCount
    /\ inference.buf_count = RawSampleCount
    /\ inference.buffer = "allocated"

====
